---- MODULE Spec2Model ----
(***************************************************************************)
(* Model of food-nutrition-backend/app.py: the /api/analyze handler, its   *)
(* in-memory nutrition cache (nutrition_db), the durable store             *)
(* data/nutrition_db.json, the write lock db_lock and the Edamam lookup    *)
(* get_nutrition_data_from_api.                                            *)
(*                                                                         *)
(* Numbers: a provider quantity is an integer number of hundredths         *)
(* (26649 is 266.49); a value rounded by round(x, 1) is an integer number  *)
(* of tenths; calories (int(...)) is a whole number.                       *)
(***************************************************************************)
EXTENDS Integers, Sequences, FiniteSets, TLC

----------------------------------------------------------------------------
(* Bounds of the model. *)

\* Requests handled over one behaviour, all threads and processes together.
MaxRequests == 2

\* Process restarts (each reloads the cache from the durable store).
MaxRestarts == 1

\* Request threads of the server's pool.
Threads == {"t1", "t2"}

NoThread == "none"

----------------------------------------------------------------------------
(* Python values.  None and the JSON values of a provider payload are      *)
(* tagged records, so that values of different Python types never have to  *)
(* be compared with each other.                                            *)

PyNone == [t |-> "None"]

JNull == [t |-> "null"]
JNum(h) == [t |-> "num", v |-> h]
JStr(s) == [t |-> "str", v |-> s]
JArr(s) == [t |-> "arr", v |-> s]
JObj(f) == [t |-> "obj", v |-> f]

\* The outcome of evaluating a Python expression: a value, or the exception raised.
Ok(x) == [exc |-> "none", val |-> x]
Raise(e) == [exc |-> e, val |-> PyNone]

\* x[key] for a string key.
SubKey(x, key) ==
    CASE x.t = "obj" -> IF key \in DOMAIN x.v THEN Ok(x.v[key]) ELSE Raise("KeyError")
      [] OTHER -> Raise("TypeError")

\* x[0].
SubFirst(x) ==
    CASE x.t = "arr" -> IF Len(x.v) > 0 THEN Ok(x.v[1]) ELSE Raise("IndexError")
      [] x.t = "str" -> IF x.v # "" THEN Ok(x) ELSE Raise("IndexError")
      [] x.t = "obj" -> Raise("KeyError")
      [] OTHER -> Raise("TypeError")

\* x.get(key, default): only a dict has the method.
DictGet(x, key, default) ==
    IF x.t = "obj"
    THEN Ok(IF key \in DOMAIN x.v THEN x.v[key] ELSE default)
    ELSE Raise("AttributeError")

\* bool(x) of a JSON value.
Truthy(x) ==
    CASE x.t = "obj" -> DOMAIN x.v # {}
      [] x.t = "arr" -> Len(x.v) > 0
      [] x.t = "str" -> x.v # ""
      [] x.t = "num" -> x.v # 0
      [] OTHER -> FALSE

\* round(x, 1) of a number of hundredths, in tenths (ties to even, as for the
\* exactly representable ties .25 and .75).
Round1(h) ==
    LET q == h \div 10
        r == h % 10
    IN  IF r < 5 THEN q
        ELSE IF r > 5 THEN q + 1
        ELSE IF q % 2 = 0 THEN q ELSE q + 1

\* int(x) of a number of tenths: truncation towards zero.
IntTrunc(tenths) == IF tenths >= 0 THEN tenths \div 10 ELSE -((-tenths) \div 10)

----------------------------------------------------------------------------
(* get_nutrition_data_from_api *)

\* The response fields of formatted_data and the provider keys they are read from.
NutrientKeys ==
    << <<"calories", "ENERC_KCAL">>, <<"protein", "PROCNT">>, <<"fat", "FAT">>,
       <<"carbs", "CHOCDF">>, <<"fiber", "FIBTG">>, <<"sugar", "SUGAR">>,
       <<"sodium", "NA">>, <<"cholesterol", "CHOLE">>, <<"calcium", "CA">>,
       <<"iron", "FE">>, <<"magnesium", "MG">>, <<"potassium", "K">>,
       <<"zinc", "ZN">>, <<"phosphorus", "P">>, <<"vitaminA", "VITA_RAE">>,
       <<"vitaminC", "VITC">>, <<"thiaminB1", "THIA">>, <<"riboflavinB2", "RIBF">>,
       <<"niacinB3", "NIA">>, <<"vitaminB6", "VITB6A">>, <<"vitaminB12", "VITB12">>,
       <<"vitaminD", "VITD">>, <<"vitaminE", "TOCPHA">>, <<"vitaminK", "VITK1">> >>

\* get_nutrient(key): round(nutrients.get(key, {}).get('quantity', 0), 1).
get_nutrient(nutrients, key) ==
    LET entry == DictGet(nutrients, key, JObj(<<>>))
        quantity == IF entry.exc = "none"
                    THEN DictGet(entry.val, "quantity", JNum(0))
                    ELSE entry
    IN  IF quantity.exc # "none" THEN quantity
        ELSE IF quantity.val.t = "num" THEN Ok(Round1(quantity.val.v))
        ELSE Raise("TypeError")

\* The dict built at lines 91-107 once calories is known to be non-zero; the
\* first get_nutrient that raises ends the construction.
formatted_data(nutrients, calories) ==
    LET got == [i \in 2..Len(NutrientKeys) |-> get_nutrient(nutrients, NutrientKeys[i][2])]
        bad == {i \in 2..Len(NutrientKeys) : got[i].exc # "none"}
        first == CHOOSE i \in bad : \A j \in bad : i <= j
    IN  IF bad # {} THEN Raise(got[first].exc)
        ELSE Ok([t |-> "dict",
                 nutritionPer100g |->
                    [f \in {NutrientKeys[i][1] : i \in 1..Len(NutrientKeys)} |->
                        IF f = "calories" THEN calories
                        ELSE got[CHOOSE i \in 2..Len(NutrientKeys) : NutrientKeys[i][1] = f].val],
                 allergens |-> <<>>])

\* ParsePayload without the test of line 87.
ParsePayload_NoZeroTest(data) ==
    LET ingredients == SubKey(data, "ingredients")
        ingredient == IF ingredients.exc = "none" THEN SubFirst(ingredients.val) ELSE ingredients
        parsed == IF ingredient.exc = "none" THEN SubKey(ingredient.val, "parsed") ELSE ingredient
        parsed_data == IF parsed.exc = "none" THEN SubFirst(parsed.val) ELSE parsed
        nutrients == IF parsed_data.exc = "none"
                     THEN DictGet(parsed_data.val, "nutrients", JObj(<<>>))
                     ELSE parsed_data
    IN  IF nutrients.exc \in {"IndexError", "KeyError"} THEN Ok(PyNone)
        ELSE IF nutrients.exc # "none" THEN nutrients
        ELSE IF ~Truthy(nutrients.val) THEN Ok(PyNone)
        ELSE LET kcal == get_nutrient(nutrients.val, "ENERC_KCAL")
             IN  IF kcal.exc # "none" THEN kcal
                 ELSE formatted_data(nutrients.val, IntTrunc(kcal.val))

\* Lines 71-108: what the function does with the decoded payload `data`.
ParsePayload(data) ==
    LET ingredients == SubKey(data, "ingredients")
        ingredient == IF ingredients.exc = "none" THEN SubFirst(ingredients.val) ELSE ingredients
        parsed == IF ingredient.exc = "none" THEN SubKey(ingredient.val, "parsed") ELSE ingredient
        parsed_data == IF parsed.exc = "none" THEN SubFirst(parsed.val) ELSE parsed
        nutrients == IF parsed_data.exc = "none"
                     THEN DictGet(parsed_data.val, "nutrients", JObj(<<>>))
                     ELSE parsed_data
    IN  IF nutrients.exc \in {"IndexError", "KeyError"} THEN Ok(PyNone)
        ELSE IF nutrients.exc # "none" THEN nutrients
        ELSE IF ~Truthy(nutrients.val) THEN Ok(PyNone)
        ELSE LET kcal == get_nutrient(nutrients.val, "ENERC_KCAL")
             IN  IF kcal.exc # "none" THEN kcal
                 ELSE IF IntTrunc(kcal.val) = 0 THEN Ok(PyNone)
                 ELSE formatted_data(nutrients.val, IntTrunc(kcal.val))

\* Lines 66-111: what the function does with the provider's reply.  A reply is
\* [net, status, json, body]: net = FALSE when requests.post raises (no
\* connection, timeout), json = FALSE when the body is not JSON.  Every
\* exception of requests (ConnectionError, HTTPError of raise_for_status,
\* requests' JSONDecodeError) is a RequestException and becomes None; any other
\* exception leaves the function.
HandleReply(reply) ==
    IF ~reply.net THEN Ok(PyNone)
    ELSE IF reply.status >= 400 /\ reply.status < 600 THEN Ok(PyNone)
    ELSE IF ~reply.json THEN Ok(PyNone)
    ELSE ParsePayload(reply.body)

\* Line 59: the credentials guard.
CredentialsNotSet(app_id, app_key) ==
    app_id = "EDAMAM_APP_ID" \/ app_key = "EDAMAM_APP_KEY"

----------------------------------------------------------------------------
(* The provider's replies the model draws from. *)

Q(h) == JObj([quantity |-> JNum(h)])

\* A payload of the documented shape around a nutrients value.
Payload(nutrients) ==
    JObj([ingredients |-> JArr(<< JObj([parsed |-> JArr(<< JObj([nutrients |-> nutrients]) >>)]) >>)])

Http(status, body) == [net |-> TRUE, status |-> status, json |-> TRUE, body |-> body]

Replies ==
    [ conn_error |-> [net |-> FALSE, status |-> 0, json |-> FALSE, body |-> JNull],
      http_401 |-> Http(401, JObj(<<>>)),
      http_500 |-> [net |-> TRUE, status |-> 500, json |-> FALSE, body |-> JNull],
      not_json |-> [net |-> TRUE, status |-> 200, json |-> FALSE, body |-> JNull],
      json_array |-> Http(200, JArr(<<>>)),
      no_ingredients |-> Http(200, JObj(<<>>)),
      empty_ingredients |-> Http(200, JObj([ingredients |-> JArr(<<>>)])),
      empty_parsed |-> Http(200, JObj([ingredients |-> JArr(<< JObj([parsed |-> JArr(<<>>)]) >>)])),
      parsed_null |-> Http(200, JObj([ingredients |-> JArr(<< JObj([parsed |-> JArr(<< JNull >>)]) >>)])),
      no_nutrients |-> Http(200, JObj([ingredients |-> JArr(<< JObj([parsed |-> JArr(<< JObj(<<>>) >>)]) >>)])),
      quantity_str |-> Http(200, Payload(JObj([ENERC_KCAL |-> JObj([quantity |-> JStr("266")])]))),
      fat_null |-> Http(200, Payload(JObj([ENERC_KCAL |-> Q(5200), FAT |-> JObj([quantity |-> JNull])]))),
      zero_kcal |-> Http(200, Payload(JObj([ENERC_KCAL |-> Q(0), PROCNT |-> Q(520), NA |-> Q(1234)]))),
      zero_kcal_fat_null |-> Http(200, Payload(JObj([ENERC_KCAL |-> Q(0), FAT |-> JObj([quantity |-> JNull])]))),
      small_kcal |-> Http(200, Payload(JObj([ENERC_KCAL |-> Q(94), CHOCDF |-> Q(2001)]))),
      missing_kcal |-> Http(200, Payload(JObj([PROCNT |-> Q(1139), FAT |-> Q(969)]))),
      ok_266 |-> Http(200, Payload(JObj([ENERC_KCAL |-> Q(26649), PROCNT |-> Q(1139),
                                         FAT |-> Q(969), CHOCDF |-> Q(3331), NA |-> Q(59800)]))),
      ok_143 |-> Http(200, Payload(JObj([ENERC_KCAL |-> Q(14300), PROCNT |-> Q(578),
                                         FAT |-> JObj(<<>>), FIBTG |-> Q(96)]))) ]

ReplyNames == DOMAIN Replies

\* What the provider said, read off the reply itself: "unreachable", "non2xx",
\* "unparseable" (not JSON, or JSON that is not of the documented shape
\* ingredients[0].parsed[0].nutrients.<KEY>.quantity), "zero" (the documented
\* shape with no nutrients or with calories that come to 0) or "found".
IsObj(x) == x.t = "obj"
IsArr(x) == x.t = "arr"
HasParsedData(body) ==
    /\ IsObj(body) /\ "ingredients" \in DOMAIN body.v
    /\ IsArr(body.v.ingredients) /\ Len(body.v.ingredients.v) > 0
    /\ IsObj(body.v.ingredients.v[1]) /\ "parsed" \in DOMAIN body.v.ingredients.v[1].v
    /\ IsArr(body.v.ingredients.v[1].v.parsed) /\ Len(body.v.ingredients.v[1].v.parsed.v) > 0
    /\ IsObj(body.v.ingredients.v[1].v.parsed.v[1])
NutrientsOf(body) ==
    LET parsed_data == body.v.ingredients.v[1].v.parsed.v[1].v
    IN  IF "nutrients" \in DOMAIN parsed_data THEN parsed_data.nutrients ELSE JObj(<<>>)
QuantityIsNumber(entry) ==
    IsObj(entry) /\ ("quantity" \in DOMAIN entry.v => entry.v.quantity.t = "num")
QuantityOf(entry) == IF "quantity" \in DOMAIN entry.v THEN entry.v.quantity.v ELSE 0
ReplyClass(reply) ==
    IF ~reply.net THEN "unreachable"
    ELSE IF reply.status < 200 \/ reply.status > 299 THEN "non2xx"
    ELSE IF ~reply.json THEN "unparseable"
    ELSE IF ~HasParsedData(reply.body) THEN "unparseable"
    ELSE LET nutrients == NutrientsOf(reply.body)
         IN  IF ~IsObj(nutrients) THEN "unparseable"
             ELSE IF DOMAIN nutrients.v = {} THEN "zero"
             ELSE IF "ENERC_KCAL" \notin DOMAIN nutrients.v THEN "zero"
             ELSE IF ~QuantityIsNumber(nutrients.v.ENERC_KCAL) THEN "unparseable"
             ELSE IF IntTrunc(Round1(QuantityOf(nutrients.v.ENERC_KCAL))) = 0 THEN "zero"
             ELSE IF \A k \in DOMAIN nutrients.v : QuantityIsNumber(nutrients.v[k]) THEN "found"
             ELSE "unparseable"

----------------------------------------------------------------------------
(* predict_image *)

class_names == << "pizza", "sushi", "hot_dog" >>

\* class_name.replace("_", " ").title() on the names of class_names.
Title == [pizza |-> "Pizza", sushi |-> "Sushi", hot_dog |-> "Hot Dog"]

\* Results of torch.topk(probabilities, 3): category ids (1-based here) with
\* their probabilities in percent, highest first.
TopK ==
    { << [catid |-> 1, prob |-> 70], [catid |-> 2, prob |-> 20], [catid |-> 3, prob |-> 10] >>,
      << [catid |-> 2, prob |-> 60], [catid |-> 3, prob |-> 30], [catid |-> 1, prob |-> 10] >> }

\* Lines 123-130: the predictions list built from a top-3 result.
predict_image(top3) ==
    [i \in 1..Len(top3) |->
        [label |-> Title[class_names[top3[i].catid]], confidence |-> top3[i].prob]]

Labels == {Title[class_names[i]] : i \in 1..Len(class_names)}

----------------------------------------------------------------------------
(* State *)

VARIABLES
    APP_ID,         \* os.getenv("EDAMAM_APP_ID"), read once at startup
    APP_KEY,        \* os.getenv("EDAMAM_APP_KEY")
    nutrition_db,   \* the in-memory cache: label -> record
    db_lock,        \* the thread holding db_lock, or NoThread
    store,          \* the file data/nutrition_db.json
    pc,             \* each thread's position in analyze
    req,            \* each thread's locals of analyze
    response,       \* each thread's HTTP response, once produced
    obs,            \* per request: what the request has done so far
    log,            \* per process: what its writes have done so far
    requests,       \* requests received so far
    restarts        \* process restarts so far

vars == << APP_ID, APP_KEY, nutrition_db, db_lock, store, pc, req, response, obs,
           log, requests, restarts >>

\* os.getenv of a variable that is not set returns None.
Unset == "<None>"

\* Contents of data/nutrition_db.json: no file, text that is not JSON (an
\* emptied or partly written file), or the JSON of a whole mapping.
NoFile == [kind |-> "absent", content |-> <<>>]
PartialFile == [kind |-> "partial", content |-> <<>>]
JsonFile(mapping) == [kind |-> "json", content |-> mapping]

\* Lines 30-36: the cache a process starts with.
LoadStore(file) == IF file.kind = "json" THEN file.content ELSE <<>>

\* The values of EDAMAM_APP_ID and EDAMAM_APP_KEY the process may start with:
\* set, left as the placeholder, or not set.
Environments ==
    { << "a1b2c3", "k9k8k7" >>,
      << "EDAMAM_APP_ID", "EDAMAM_APP_KEY" >>,
      << "EDAMAM_APP_ID", "k9k8k7" >>,
      << "a1b2c3", "EDAMAM_APP_KEY" >>,
      << Unset, "k9k8k7" >> }

Record266 == HandleReply(Replies.ok_266).val

NoPredictions == <<>>
NoLabel == ""
NoResponse == [status |-> 0]

IdleReq == [predictions |-> NoPredictions, top_prediction_label |-> NoLabel,
            nutrition_data |-> PyNone, e |-> "none"]

\* image: whether the request came with an image field;
\* calls: the arguments of the request's calls of get_nutrition_data_from_api;
\* posts: its requests.post calls; reply: the class of the provider reply it got;
\* cache: the outcome of its cache check; put_seen: the records whose write for
\* its label had completed when it checked the cache; wrote: the outcome of its
\* file write.
IdleObs == [image |-> "none", calls |-> <<>>, posts |-> 0, reply |-> "none",
            cache |-> "unchecked", put_seen |-> {}, wrote |-> "no"]

\* loaded: the labels loaded at startup; ins: the records inserted in memory for
\* each label; put: those whose file write completed; failed: the labels whose
\* file write failed; unsaved: the labels that entered the cache with no file
\* write completed since.
NewLog(db) == [loaded |-> DOMAIN db,
               ins |-> [l \in Labels |-> {}], put |-> [l \in Labels |-> {}],
               failed |-> {}, unsaved |-> {}]

Init ==
    /\ \E env \in Environments : APP_ID = env[1] /\ APP_KEY = env[2]
    /\ store \in {NoFile, JsonFile([l \in {"Sushi"} |-> Record266])}
    /\ nutrition_db = LoadStore(store)
    /\ db_lock = NoThread
    /\ pc = [t \in Threads |-> "idle"]
    /\ req = [t \in Threads |-> IdleReq]
    /\ response = [t \in Threads |-> NoResponse]
    /\ obs = [t \in Threads |-> IdleObs]
    /\ log = NewLog(nutrition_db)
    /\ requests = 0
    /\ restarts = 0

----------------------------------------------------------------------------
(* analyze, one action per step of a request thread *)

ErrorResponse(status, message) == [status |-> status, body |-> [error |-> message]]

\* Receive with the test of line 136 left out: the request is classified
\* whether or not it has an image field.
Receive_NoImageTest(t) ==
    /\ pc[t] = "idle"
    /\ requests < MaxRequests
    /\ requests' = requests + 1
    /\ \E has_image \in BOOLEAN :
        obs' = [obs EXCEPT ![t].image = IF has_image THEN "yes" ELSE "no"]
    /\ pc' = [pc EXCEPT ![t] = "predict"]
    /\ UNCHANGED << APP_ID, APP_KEY, nutrition_db, db_lock, store, req, response,
                    log, restarts >>

\* Lines 136-139: a request arrives; without an image field it is answered 400.
Receive(t) ==
    /\ pc[t] = "idle"
    /\ requests < MaxRequests
    /\ requests' = requests + 1
    /\ \E has_image \in BOOLEAN :
        IF has_image
        THEN /\ pc' = [pc EXCEPT ![t] = "predict"]
             /\ obs' = [obs EXCEPT ![t].image = "yes"]
             /\ UNCHANGED response
        ELSE /\ pc' = [pc EXCEPT ![t] = "done"]
             /\ obs' = [obs EXCEPT ![t].image = "no"]
             /\ response' = [response EXCEPT ![t] = ErrorResponse(400, "No image file provided")]
    /\ UNCHANGED << APP_ID, APP_KEY, nutrition_db, db_lock, store, req, log, restarts >>

\* Lines 142-144: the classifier runs; it raises (an unreadable image) or
\* returns its three predictions.
Predict(t) ==
    /\ pc[t] = "predict"
    /\ \/ /\ pc' = [pc EXCEPT ![t] = "except"]
          /\ req' = [req EXCEPT ![t].e = "UnidentifiedImageError"]
       \/ \E top3 \in TopK :
            /\ pc' = [pc EXCEPT ![t] = "check"]
            /\ req' = [req EXCEPT ![t].predictions = predict_image(top3),
                                  ![t].top_prediction_label = predict_image(top3)[1].label,
                                  ![t].nutrition_data = PyNone]
    /\ UNCHANGED << APP_ID, APP_KEY, nutrition_db, db_lock, store, response, obs,
                    log, requests, restarts >>

\* CheckCache waiting for the write lock to be free before it looks.
CheckCache_Locked(t) ==
    /\ pc[t] = "check"
    /\ db_lock = NoThread
    /\ IF req[t].top_prediction_label \in DOMAIN nutrition_db
       THEN /\ pc' = [pc EXCEPT ![t] = "hit"]
            /\ obs' = [obs EXCEPT ![t].cache = "hit",
                                  ![t].put_seen = log.put[req[t].top_prediction_label]]
       ELSE /\ pc' = [pc EXCEPT ![t] = "miss"]
            /\ obs' = [obs EXCEPT ![t].cache = "miss",
                                  ![t].put_seen = log.put[req[t].top_prediction_label]]
    /\ UNCHANGED << APP_ID, APP_KEY, nutrition_db, db_lock, store, req, response,
                    log, requests, restarts >>

\* Line 147: the membership test.
CheckCache(t) ==
    /\ pc[t] = "check"
    /\ IF req[t].top_prediction_label \in DOMAIN nutrition_db
       THEN /\ pc' = [pc EXCEPT ![t] = "hit"]
            /\ obs' = [obs EXCEPT ![t].cache = "hit",
                                  ![t].put_seen = log.put[req[t].top_prediction_label]]
       ELSE /\ pc' = [pc EXCEPT ![t] = "miss"]
            /\ obs' = [obs EXCEPT ![t].cache = "miss",
                                  ![t].put_seen = log.put[req[t].top_prediction_label]]
    /\ UNCHANGED << APP_ID, APP_KEY, nutrition_db, db_lock, store, req, response,
                    log, requests, restarts >>

\* ReadCache with the cache check's result ignored: the provider is asked anyway.
ReadCache_Refetch(t) ==
    /\ pc[t] = "hit"
    /\ pc' = [pc EXCEPT ![t] = "miss"]
    /\ UNCHANGED << APP_ID, APP_KEY, nutrition_db, db_lock, store, req, response, obs,
                    log, requests, restarts >>

\* Line 149: the read of the entry.
ReadCache(t) ==
    /\ pc[t] = "hit"
    /\ IF req[t].top_prediction_label \in DOMAIN nutrition_db
       THEN /\ pc' = [pc EXCEPT ![t] = "respond"]
            /\ req' = [req EXCEPT ![t].nutrition_data = nutrition_db[req[t].top_prediction_label]]
       ELSE /\ pc' = [pc EXCEPT ![t] = "except"]
            /\ req' = [req EXCEPT ![t].e = "KeyError"]
    /\ UNCHANGED << APP_ID, APP_KEY, nutrition_db, db_lock, store, response, obs,
                    log, requests, restarts >>

\* AfterFetch going straight to the response, the save left out.
AfterFetch_NoSave(nutrition_data) == "respond"

\* AfterFetch saving whatever the provider function returned.
AfterFetch_SaveAnything(nutrition_data) == "lock"

\* Line 157: only a non-empty result is saved.
AfterFetch(nutrition_data) == IF nutrition_data.t = "dict" THEN "lock" ELSE "respond"

\* CallProvider looking up every prediction instead of the top one.
CallProvider_AllPredictions(t) ==
    /\ pc[t] = "miss"
    /\ pc' = [pc EXCEPT ![t] = IF CredentialsNotSet(APP_ID, APP_KEY)
                                THEN AfterFetch(PyNone) ELSE "posting"]
    /\ req' = [req EXCEPT ![t].nutrition_data = PyNone]
    /\ obs' = [obs EXCEPT ![t].calls = [i \in 1..Len(req[t].predictions) |->
                                            req[t].predictions[i].label],
                          ![t].posts = IF CredentialsNotSet(APP_ID, APP_KEY)
                                       THEN 0 ELSE Len(req[t].predictions)]
    /\ UNCHANGED << APP_ID, APP_KEY, nutrition_db, db_lock, store, response,
                    log, requests, restarts >>

\* Lines 154 and 59-67: get_nutrition_data_from_api is called with the top
\* label; with a placeholder credential it returns None at once, otherwise it
\* posts to the provider.
CallProvider(t) ==
    /\ pc[t] = "miss"
    /\ IF CredentialsNotSet(APP_ID, APP_KEY)
       THEN /\ pc' = [pc EXCEPT ![t] = AfterFetch(PyNone)]
            /\ req' = [req EXCEPT ![t].nutrition_data = PyNone]
            /\ obs' = [obs EXCEPT ![t].calls = Append(@, req[t].top_prediction_label)]
       ELSE /\ pc' = [pc EXCEPT ![t] = "posting"]
            /\ obs' = [obs EXCEPT ![t].calls = Append(@, req[t].top_prediction_label),
                                  ![t].posts = @ + 1]
            /\ UNCHANGED req
    /\ UNCHANGED << APP_ID, APP_KEY, nutrition_db, db_lock, store, response,
                    log, requests, restarts >>

\* Lines 67-111 and 157: the provider answers and the function returns or raises.
ProviderReplies(t) ==
    /\ pc[t] = "posting"
    /\ \E r \in ReplyNames :
        LET result == HandleReply(Replies[r])
        IN  /\ obs' = [obs EXCEPT ![t].reply = ReplyClass(Replies[r])]
            /\ IF result.exc = "none"
               THEN /\ pc' = [pc EXCEPT ![t] = AfterFetch(result.val)]
                    /\ req' = [req EXCEPT ![t].nutrition_data = result.val]
               ELSE /\ pc' = [pc EXCEPT ![t] = "except"]
                    /\ req' = [req EXCEPT ![t].e = result.exc]
    /\ UNCHANGED << APP_ID, APP_KEY, nutrition_db, db_lock, store, response,
                    log, requests, restarts >>

\* Acquire entering the block without waiting for the lock to be free.
Acquire_NoWait(t) ==
    /\ pc[t] = "lock"
    /\ db_lock' = t
    /\ pc' = [pc EXCEPT ![t] = "insert"]
    /\ UNCHANGED << APP_ID, APP_KEY, nutrition_db, store, req, response, obs,
                    log, requests, restarts >>

\* Line 160: with db_lock.
Acquire(t) ==
    /\ pc[t] = "lock"
    /\ db_lock = NoThread
    /\ db_lock' = t
    /\ pc' = [pc EXCEPT ![t] = "insert"]
    /\ UNCHANGED << APP_ID, APP_KEY, nutrition_db, store, req, response, obs,
                    log, requests, restarts >>

\* DictSet on a mapping of bounded size: a new key takes the place of the
\* entries already there.
DictSet_Evict(d, key, value) ==
    [k \in (IF key \in DOMAIN d THEN DOMAIN d ELSE {key}) |-> IF k = key THEN value ELSE d[k]]

\* DictSet rebinding the mapping to the new entry alone.
DictSet_Rebind(d, key, value) == [k \in {key} |-> value]

\* nutrition_db[key] = value.
DictSet(d, key, value) == [k \in DOMAIN d \cup {key} |-> IF k = key THEN value ELSE d[k]]

\* Insert storing the record under the label of the second prediction.
Insert_SecondLabel(t) ==
    /\ pc[t] = "insert"
    /\ nutrition_db' = DictSet(nutrition_db, req[t].predictions[2].label, req[t].nutrition_data)
    /\ pc' = [pc EXCEPT ![t] = "open"]
    /\ log' = [log EXCEPT !.ins[req[t].predictions[2].label] = @ \cup {req[t].nutrition_data},
                          !.unsaved = IF req[t].predictions[2].label \in DOMAIN nutrition_db
                                      THEN @ ELSE @ \cup {req[t].predictions[2].label}]
    /\ UNCHANGED << APP_ID, APP_KEY, db_lock, store, req, response, obs,
                    requests, restarts >>

\* Line 161.
Insert(t) ==
    /\ pc[t] = "insert"
    /\ nutrition_db' = DictSet(nutrition_db, req[t].top_prediction_label, req[t].nutrition_data)
    /\ pc' = [pc EXCEPT ![t] = "open"]
    /\ log' = [log EXCEPT !.ins[req[t].top_prediction_label] = @ \cup {req[t].nutrition_data},
                          !.unsaved = IF req[t].top_prediction_label \in DOMAIN nutrition_db
                                      THEN @ ELSE @ \cup {req[t].top_prediction_label}]
    /\ UNCHANGED << APP_ID, APP_KEY, db_lock, store, req, response, obs,
                    requests, restarts >>

WriteFailed(l, label) ==
    [l EXCEPT !.failed = @ \cup {label}]

WriteCompleted(l, label, record) ==
    [l EXCEPT !.put[label] = @ \cup {record}, !.unsaved = {}]

\* OpenFile leaving the block without releasing the lock when open fails.
OpenFile_KeepsLock(t) ==
    /\ pc[t] = "open"
    /\ \E opened \in BOOLEAN :
        IF opened
        THEN /\ store' = PartialFile
             /\ pc' = [pc EXCEPT ![t] = "dump"]
             /\ UNCHANGED << obs, log >>
        ELSE /\ pc' = [pc EXCEPT ![t] = "respond"]
             /\ obs' = [obs EXCEPT ![t].wrote = "failed"]
             /\ log' = WriteFailed(log, req[t].top_prediction_label)
             /\ UNCHANGED store
    /\ UNCHANGED << APP_ID, APP_KEY, nutrition_db, db_lock, req, response,
                    requests, restarts >>

\* Line 163: open(DB_FILE_PATH, 'w') empties the file, or fails with an
\* IOError that line 165 catches.
OpenFile(t) ==
    /\ pc[t] = "open"
    /\ \E opened \in BOOLEAN :
        IF opened
        THEN /\ store' = PartialFile
             /\ pc' = [pc EXCEPT ![t] = "dump"]
             /\ UNCHANGED << obs, log >>
        ELSE /\ pc' = [pc EXCEPT ![t] = "release"]
             /\ obs' = [obs EXCEPT ![t].wrote = "failed"]
             /\ log' = WriteFailed(log, req[t].top_prediction_label)
             /\ UNCHANGED store
    /\ UNCHANGED << APP_ID, APP_KEY, nutrition_db, db_lock, req, response,
                    requests, restarts >>

\* What a completed json.dump(nutrition_db, f) leaves in the file.
DumpedFile(db) == JsonFile(db)

\* Dump writing the new entry alone instead of the whole mapping.
Dump_OnlyNewEntry(t) ==
    /\ pc[t] = "dump"
    /\ \E written \in BOOLEAN :
        IF written
        THEN /\ store' = DumpedFile([k \in {req[t].top_prediction_label} |->
                                        req[t].nutrition_data])
             /\ obs' = [obs EXCEPT ![t].wrote = "ok"]
             /\ log' = WriteCompleted(log, req[t].top_prediction_label, req[t].nutrition_data)
        ELSE /\ store' = PartialFile
             /\ obs' = [obs EXCEPT ![t].wrote = "failed"]
             /\ log' = WriteFailed(log, req[t].top_prediction_label)
    /\ pc' = [pc EXCEPT ![t] = "release"]
    /\ UNCHANGED << APP_ID, APP_KEY, nutrition_db, db_lock, req, response,
                    requests, restarts >>

\* Line 164: json.dump writes the whole mapping, or fails part-way with an
\* IOError (disk full) that line 165 catches.
Dump(t) ==
    /\ pc[t] = "dump"
    /\ \E written \in BOOLEAN :
        IF written
        THEN /\ store' = DumpedFile(nutrition_db)
             /\ obs' = [obs EXCEPT ![t].wrote = "ok"]
             /\ log' = WriteCompleted(log, req[t].top_prediction_label, req[t].nutrition_data)
        ELSE /\ store' = PartialFile
             /\ obs' = [obs EXCEPT ![t].wrote = "failed"]
             /\ log' = WriteFailed(log, req[t].top_prediction_label)
    /\ pc' = [pc EXCEPT ![t] = "release"]
    /\ UNCHANGED << APP_ID, APP_KEY, nutrition_db, db_lock, req, response,
                    requests, restarts >>

\* The end of the with block of line 160.
Release(t) ==
    /\ pc[t] = "release"
    /\ db_lock' = IF db_lock = t THEN NoThread ELSE db_lock
    /\ pc' = [pc EXCEPT ![t] = "respond"]
    /\ UNCHANGED << APP_ID, APP_KEY, nutrition_db, store, req, response, obs,
                    log, requests, restarts >>

\* Lines 170-174.
BuildResponse(predictions, nutrition_data) ==
    [status |-> 200,
     body |-> [predictions |-> predictions,
               nutritionPer100g |-> IF nutrition_data.t = "dict"
                                    THEN nutrition_data.nutritionPer100g ELSE PyNone,
               allergens |-> IF nutrition_data.t = "dict"
                             THEN nutrition_data.allergens ELSE <<>>]]

\* Lines 170-176.
Respond(t) ==
    /\ pc[t] = "respond"
    /\ response' = [response EXCEPT ![t] = BuildResponse(req[t].predictions, req[t].nutrition_data)]
    /\ pc' = [pc EXCEPT ![t] = "done"]
    /\ UNCHANGED << APP_ID, APP_KEY, nutrition_db, db_lock, store, req, obs,
                    log, requests, restarts >>

\* FailureResponse with str(e) as the message.
FailureResponse_Detail(e) == ErrorResponse(500, e)

\* Lines 178-180: the response of the except clause.
FailureResponse(e) == ErrorResponse(500, "Failed to analyze image")

HandleException(t) ==
    /\ pc[t] = "except"
    /\ response' = [response EXCEPT ![t] = FailureResponse(req[t].e)]
    /\ pc' = [pc EXCEPT ![t] = "done"]
    /\ UNCHANGED << APP_ID, APP_KEY, nutrition_db, db_lock, store, req, obs,
                    log, requests, restarts >>

\* The response is sent and the thread goes back to the pool.
Return(t) ==
    /\ pc[t] = "done"
    /\ pc' = [pc EXCEPT ![t] = "idle"]
    /\ req' = [req EXCEPT ![t] = IdleReq]
    /\ obs' = [obs EXCEPT ![t] = IdleObs]
    /\ response' = [response EXCEPT ![t] = NoResponse]
    /\ UNCHANGED << APP_ID, APP_KEY, nutrition_db, db_lock, store, log, requests, restarts >>

\* The process ends (at any point, also inside a write) and is started again:
\* lines 20-36 run again on the file as it was left.
Restart ==
    /\ restarts < MaxRestarts
    /\ restarts' = restarts + 1
    /\ nutrition_db' = LoadStore(store)
    /\ db_lock' = NoThread
    /\ pc' = [t \in Threads |-> "idle"]
    /\ req' = [t \in Threads |-> IdleReq]
    /\ obs' = [t \in Threads |-> IdleObs]
    /\ response' = [t \in Threads |-> NoResponse]
    /\ log' = NewLog(LoadStore(store))
    /\ UNCHANGED << APP_ID, APP_KEY, store, requests >>

Step(t) ==
    \/ Receive(t)
    \/ Predict(t)
    \/ CheckCache(t)
    \/ ReadCache(t)
    \/ CallProvider(t)
    \/ ProviderReplies(t)
    \/ Acquire(t)
    \/ Insert(t)
    \/ OpenFile(t)
    \/ Dump(t)
    \/ Release(t)
    \/ Respond(t)
    \/ HandleException(t)
    \/ Return(t)

Next == (\E t \in Threads : Step(t)) \/ Restart

Spec == Init /\ [][Next]_vars

\* The steps of a request that return in finite time: everything but the
\* classifier and the provider's answer (no timeout is set on either), the
\* arrival of a request and the hand-back of its response.
LocalStep(t) ==
    \/ CheckCache(t)
    \/ ReadCache(t)
    \/ CallProvider(t)
    \/ Acquire(t)
    \/ Insert(t)
    \/ OpenFile(t)
    \/ Dump(t)
    \/ Release(t)
    \/ Respond(t)
    \/ HandleException(t)

\* One run of the process, from its start until it is stopped.
Running == \E t \in Threads : Step(t)

\* A process that is never stopped, in which each request thread that can
\* take a local step eventually takes one.
FairSpec == Init /\ [][Running]_vars /\ \A t \in Threads : WF_vars(LocalStep(t))

----------------------------------------------------------------------------
(* Properties *)

\* Thread t takes a step of its request (every step of a request moves its pc).
Moved(t) == pc'[t] # pc[t] /\ restarts' = restarts

\* The 200 response that carries `record` for `predictions`.
FoundResponse(predictions, record) ==
    [status |-> 200,
     body |-> [predictions |-> predictions,
               nutritionPer100g |-> record.nutritionPer100g,
               allergens |-> record.allergens]]

\* The 200 response without nutrition.
NullResponse(predictions) ==
    [status |-> 200,
     body |-> [predictions |-> predictions, nutritionPer100g |-> PyNone, allergens |-> <<>>]]

\* The request of thread t has called the provider function.
AfterCall == {"posting", "lock", "insert", "open", "dump", "release", "respond",
              "except", "done"}

\* C1: a request whose cache check finds its top label goes on to read the
\* entry and to respond 200 with exactly the record the cache holds for the
\* label at that read; none of its steps calls the provider, changes the
\* in-memory cache or changes the durable store.
C1_CacheHitServesStoredRecord ==
    [][\A t \in Threads :
        /\ (pc[t] = "check" /\ Moved(t)
                /\ req[t].top_prediction_label \in DOMAIN nutrition_db) =>
              /\ pc'[t] = "hit"
              /\ UNCHANGED << nutrition_db, store >>
        /\ (pc[t] = "hit" /\ Moved(t)) =>
              /\ pc'[t] = "respond"
              /\ req'[t].nutrition_data = nutrition_db[req[t].top_prediction_label]
              /\ obs'[t].calls = <<>> /\ obs'[t].posts = 0
              /\ UNCHANGED << nutrition_db, store >>
        /\ (pc[t] = "respond" /\ obs[t].cache = "hit" /\ Moved(t)) =>
              /\ pc'[t] = "done"
              /\ response'[t] = FoundResponse(req[t].predictions, req[t].nutrition_data)
              /\ obs'[t].calls = <<>> /\ obs'[t].posts = 0
              /\ UNCHANGED << nutrition_db, store >>
      ]_vars

\* C1 witness: a request that hit the cache has responded with the record.
C1_Witness ==
    \E t \in Threads :
        /\ pc[t] = "done"
        /\ obs[t].cache = "hit"
        /\ obs[t].calls = <<>>
        /\ response[t] = FoundResponse(req[t].predictions,
                                       nutrition_db[req[t].top_prediction_label])

\* C2: a request whose cache check misses calls the provider function exactly
\* once, with the label of its first prediction, and posts to the provider at
\* most once (no retry); this holds for every request, whatever earlier
\* requests for the label did.
C2_MissCallsProviderOnce ==
    \A t \in Threads :
        obs[t].cache = "miss" =>
            /\ pc[t] = "miss" => obs[t].calls = <<>> /\ obs[t].posts = 0
            /\ pc[t] \in AfterCall =>
                  /\ obs[t].calls = << req[t].predictions[1].label >>
                  /\ obs[t].posts <= 1
            /\ pc[t] = "posting" => obs[t].posts = 1
            /\ pc[t] \in {"miss"} \cup AfterCall

\* C2 witness: two requests for the same label have both missed and each has
\* made its one call, the fetch of one of them having failed.
C2_Witness ==
    \E t1, t2 \in Threads :
        /\ t1 # t2
        /\ pc[t1] = "done" /\ pc[t2] = "done"
        /\ obs[t1].cache = "miss" /\ obs[t2].cache = "miss"
        /\ req[t1].top_prediction_label = req[t2].top_prediction_label
        /\ obs[t1].calls = << req[t1].top_prediction_label >>
        /\ obs[t2].calls = << req[t2].top_prediction_label >>
        /\ obs[t1].posts = 1 /\ obs[t2].posts = 1
        /\ response[t1] = NullResponse(req[t1].predictions)

\* C3: once a write of record R for label L has completed, every
\* request that checks the cache afterwards for L hits, calls no provider and
\* returns R, and (no write being under way) the durable store holds an entry
\* for L that is a record written for L.
C3_Original ==
    /\ \A t \in Threads :
          obs[t].put_seen # {} =>
              /\ obs[t].cache = "hit" /\ obs[t].calls = <<>>
              /\ pc[t] = "done" =>
                    \A R \in obs[t].put_seen :
                        response[t] = FoundResponse(req[t].predictions, R)
    /\ \A L \in Labels :
          (log.put[L] # {} /\ db_lock = NoThread) =>
              /\ store.kind = "json"
              /\ L \in DOMAIN store.content
              /\ store.content[L] \in log.ins[L]

\* C4: when the provider function returns None to a miss request, the request
\* goes on to respond 200 with its predictions, nutritionPer100g = null and
\* allergens = [], and none of its steps changes the in-memory cache or the
\* durable store; a label enters the cache only by the startup load or by the
\* insert of a non-empty fetched record, so a label that is still absent makes
\* the next request for it a miss again.
C4_FailuresAreNotCached ==
    /\ [](\A L \in DOMAIN nutrition_db :
            /\ L \in log.loaded \/ log.ins[L] # {}
            /\ \A R \in log.ins[L] : R.t = "dict")
    /\ [][\A t \in Threads :
            /\ (pc[t] \in {"miss", "posting"} /\ Moved(t) /\ pc'[t] # "posting"
                    /\ req'[t].e = "none" /\ req'[t].nutrition_data = PyNone) =>
                  /\ pc'[t] = "respond"
                  /\ UNCHANGED << nutrition_db, store >>
            /\ (pc[t] = "respond" /\ obs[t].cache = "miss" /\ Moved(t)
                    /\ req[t].nutrition_data = PyNone) =>
                  /\ response'[t] = NullResponse(req[t].predictions)
                  /\ UNCHANGED << nutrition_db, store >>
            /\ (pc[t] = "check" /\ Moved(t)
                    /\ req[t].top_prediction_label \notin DOMAIN nutrition_db) =>
                  pc'[t] = "miss"
         ]_vars

\* C4 witness: a request whose fetch failed has responded without nutrition,
\* its label is still absent, and another request for the same label has
\* missed and called the provider.
C4_Witness ==
    \E t1, t2 \in Threads :
        /\ t1 # t2
        /\ pc[t1] = "done" /\ obs[t1].cache = "miss"
        /\ obs[t1].reply \in {"unreachable", "non2xx"}
        /\ response[t1] = NullResponse(req[t1].predictions)
        /\ req[t1].top_prediction_label \notin DOMAIN nutrition_db
        /\ req[t2].top_prediction_label = req[t1].top_prediction_label
        /\ obs[t2].cache = "miss" /\ pc[t2] = "posting"

\* C5: a request whose provider reply has zero calories (or no nutrients) gets
\* None from the provider function, never enters the write section (its label
\* is in the cache only if another request's fetched record was inserted), and
\* responds exactly as a request whose provider call failed: 200 with the
\* predictions, null nutrition and no allergens.
C5_ZeroCaloriesIsNotFound ==
    /\ \A t \in Threads :
          obs[t].reply = "zero" =>
              /\ pc[t] \in {"respond", "done"}
              /\ req[t].nutrition_data = PyNone /\ req[t].e = "none"
              /\ obs[t].wrote = "no"
              /\ req[t].top_prediction_label \in DOMAIN nutrition_db =>
                    log.ins[req[t].top_prediction_label] # {}
              /\ pc[t] = "done" => response[t] = NullResponse(req[t].predictions)
    /\ \A t1, t2 \in Threads :
          (/\ pc[t1] = "done" /\ pc[t2] = "done"
           /\ obs[t1].reply = "zero" /\ obs[t2].reply \in {"unreachable", "non2xx"}
           /\ req[t1].predictions = req[t2].predictions) =>
              response[t1] = response[t2]

\* C5 witness: a zero-calorie reply and a failed provider call have been
\* answered alike, and the label is not cached.
C5_Witness ==
    \E t1, t2 \in Threads :
        /\ pc[t1] = "done" /\ pc[t2] = "done"
        /\ obs[t1].reply = "zero" /\ obs[t2].reply = "unreachable"
        /\ req[t1].predictions = req[t2].predictions
        /\ response[t1] = NullResponse(req[t1].predictions)
        /\ response[t2] = response[t1]
        /\ req[t1].top_prediction_label \notin DOMAIN nutrition_db

\* C6: when two requests that missed on different labels have both fetched
\* and written successfully, the in-memory cache and the durable store both
\* hold both labels, each with the same record in the cache and in the store:
\* the record its request fetched, or another record inserted for that label
\* if a third request inserted one; and a request waiting for the lock waits
\* for a holder that is inside the write section, which it leaves without
\* waiting for anything.
C6_NoLostUpdate ==
    /\ \A t1, t2 \in Threads :
          (/\ t1 # t2
           /\ pc[t1] \in {"respond", "done"} /\ pc[t2] \in {"respond", "done"}
           /\ obs[t1].wrote = "ok" /\ obs[t2].wrote = "ok"
           /\ req[t1].top_prediction_label # req[t2].top_prediction_label) =>
              \A t \in {t1, t2} :
                  LET L == req[t].top_prediction_label
                  IN  /\ L \in DOMAIN nutrition_db
                      /\ nutrition_db[L] \in log.ins[L]
                      /\ req[t].nutrition_data \in log.ins[L]
                      /\ log.ins[L] = {req[t].nutrition_data} =>
                            nutrition_db[L] = req[t].nutrition_data
                      /\ store.kind = "json"
                      /\ L \in DOMAIN store.content
                      /\ store.content[L] = nutrition_db[L]
    /\ \A t \in Threads :
          (pc[t] = "lock" /\ db_lock # NoThread) =>
              pc[db_lock] \in {"insert", "open", "dump", "release"}

\* C6 witness: two requests in flight at the same time, one for 'Pizza' and one
\* for 'Sushi', have both responded after a successful write, and the cache
\* and the store hold both labels.
C6_Witness ==
    \E t1, t2 \in Threads :
        /\ pc[t1] = "done" /\ pc[t2] = "done"
        /\ obs[t1].wrote = "ok" /\ obs[t2].wrote = "ok"
        /\ req[t1].top_prediction_label = "Pizza"
        /\ req[t2].top_prediction_label = "Sushi"
        /\ DOMAIN store.content = {"Pizza", "Sushi"}
        /\ DOMAIN nutrition_db = {"Pizza", "Sushi"}
        /\ nutrition_db["Pizza"] = req[t1].nutrition_data
        /\ nutrition_db["Sushi"] = req[t2].nutrition_data
        /\ store.content = nutrition_db

\* C7: a request whose file write failed still responds 200 with the fetched
\* record, its label stays in the in-memory cache, and a restart (no write
\* being under way) brings back the cache without the labels that entered it
\* with no write completed since, and with every other label.
C7_Original ==
    /\ [](\A t \in Threads :
            /\ (pc[t] = "done" /\ obs[t].wrote = "failed") =>
                  response[t] = FoundResponse(req[t].predictions, req[t].nutrition_data)
            /\ \A L \in log.failed : L \in DOMAIN nutrition_db)
    /\ [][(restarts' = restarts + 1 /\ db_lock = NoThread) =>
            DOMAIN nutrition_db' = DOMAIN nutrition_db \ log.unsaved]_vars

\* C8: whatever makes the provider lookup fail (provider unreachable, non-2xx
\* status, a payload that cannot be parsed, a zero or empty result), the
\* request raises nothing and responds 200 with its predictions and null
\* nutrition.
C8_ProviderFailuresAreNotFound ==
    \A t \in Threads :
        obs[t].reply \in {"unreachable", "non2xx", "unparseable", "zero"} =>
            /\ req[t].e = "none"
            /\ pc[t] \in {"respond", "done"}
            /\ pc[t] = "done" => response[t] = NullResponse(req[t].predictions)

\* C9: when either credential is the placeholder or is not set, no request
\* posts to the provider, a miss responds without nutrition and nothing is
\* inserted in the cache.
C9_MissingCredentialsSkipProvider ==
    (APP_ID \in {"EDAMAM_APP_ID", Unset} \/ APP_KEY \in {"EDAMAM_APP_KEY", Unset}) =>
        /\ \A t \in Threads :
              /\ obs[t].posts = 0
              /\ (pc[t] = "done" /\ obs[t].cache = "miss") =>
                    response[t] = NullResponse(req[t].predictions)
        /\ \A L \in Labels : log.ins[L] = {}

\* C10: a request in which an exception was raised ends with status 500 and
\* the body {error: "Failed to analyze image"}, whatever the exception; when
\* the classifier raised, the request has checked no cache, called no
\* provider and written nothing, and its steps leave the in-memory cache and
\* the durable store unchanged.
C10_UnexpectedFailureIs500 ==
    /\ [](\A t \in Threads :
            /\ req[t].e # "none" =>
                  /\ pc[t] \in {"except", "done"}
                  /\ pc[t] = "done" =>
                        response[t] = [status |-> 500,
                                       body |-> [error |-> "Failed to analyze image"]]
            /\ req[t].e = "UnidentifiedImageError" =>
                  /\ obs[t].calls = <<>> /\ obs[t].posts = 0
                  /\ obs[t].cache = "unchecked" /\ obs[t].wrote = "no"
            /\ (pc[t] = "done" /\ response[t].status = 500) => req[t].e # "none")
    /\ [][\A t \in Threads :
            (Moved(t) /\ (pc[t] \in {"predict", "except"} \/ pc'[t] = "except")) =>
                UNCHANGED << nutrition_db, store >>
         ]_vars

\* C10 witness: one request failed in classification and another in the
\* provider lookup, and both were answered 500 with the fixed body.
C10_Witness ==
    \E t1, t2 \in Threads :
        /\ pc[t1] = "done" /\ pc[t2] = "done"
        /\ req[t1].e = "UnidentifiedImageError"
        /\ req[t2].e = "TypeError"
        /\ response[t1] = ErrorResponse(500, "Failed to analyze image")
        /\ response[t2] = response[t1]

\* C11: a request without an image field is answered 400 with the body
\* {error: "No image file provided"} in its first step; it has run no
\* classifier, checked no cache, called no provider and does not hold the
\* lock, and that step leaves the lock, the in-memory cache and the durable
\* store unchanged. A request with an image field is never answered 400.
C11_NoImageIs400 ==
    /\ [](\A t \in Threads :
            /\ obs[t].image = "no" =>
                  /\ pc[t] = "done"
                  /\ response[t] = [status |-> 400,
                                    body |-> [error |-> "No image file provided"]]
                  /\ req[t] = IdleReq
                  /\ obs[t] = [IdleObs EXCEPT !.image = "no"]
                  /\ db_lock # t
            /\ (pc[t] = "done" /\ response[t].status = 400) => obs[t].image = "no")
    /\ [][\A t \in Threads :
            (Moved(t) /\ obs'[t].image = "no") =>
                /\ pc[t] = "idle"
                /\ UNCHANGED << nutrition_db, store, db_lock, log >>
         ]_vars

\* C11 witness: a request without an image field has been answered 400 while
\* another request holds the lock inside its write.
C11_Witness ==
    \E t1, t2 \in Threads :
        /\ pc[t1] = "done" /\ obs[t1].image = "no"
        /\ response[t1] = ErrorResponse(400, "No image file provided")
        /\ pc[t2] = "dump" /\ db_lock = t2

\* The positions of lines 161-166, inside the with block.
WriteSection == {"insert", "open", "dump", "release"}

\* C12: at most one request is inside the insert-then-rewrite section at a
\* time and it is the holder of the lock; from the step that takes the lock to
\* the step that releases it, the in-memory cache and the file are changed by
\* the steps of the holder only, whether the other request is for the same
\* label or for another.
C12_WritePathIsExclusive ==
    /\ [](\A t1, t2 \in Threads :
            /\ pc[t1] \in WriteSection => db_lock = t1
            /\ (pc[t1] \in WriteSection /\ pc[t2] \in WriteSection) => t1 = t2)
    /\ [][restarts' = restarts =>
            /\ \A t \in Threads :
                  (db_lock = t /\ ~Moved(t)) => UNCHANGED << nutrition_db, store, db_lock >>
            /\ (nutrition_db' # nutrition_db \/ store' # store) =>
                  \E t \in Threads : db_lock = t /\ Moved(t) /\ pc[t] \in WriteSection
         ]_vars

\* C12 witness: one request is rewriting the file while another, which
\* fetched a record for the same label, waits for the lock.
C12_Witness ==
    \E t1, t2 \in Threads :
        /\ pc[t1] = "dump" /\ db_lock = t1
        /\ pc[t2] = "lock"
        /\ req[t1].top_prediction_label = req[t2].top_prediction_label

\* A record as lines 91-108 build it: every field of formatted_data with a
\* number, calories not 0, and the empty allergens list.
CompleteRecord(r) ==
    /\ r.t = "dict"
    /\ DOMAIN r.nutritionPer100g = {NutrientKeys[i][1] : i \in 1..Len(NutrientKeys)}
    /\ \A f \in DOMAIN r.nutritionPer100g : r.nutritionPer100g[f] \in Int
    /\ r.nutritionPer100g.calories # 0
    /\ r.allergens = <<>>

\* C13: every key of the in-memory cache was loaded from the file at startup
\* or inserted by a request of this process, and maps to a complete record
\* with non-zero calories; the cache changes (other than by a restart) only
\* by the insert of a request that called the provider function for exactly
\* that label and got a usable reply, and the entry is the record the call
\* returned.
C13_CacheMembership ==
    /\ [](\A L \in DOMAIN nutrition_db :
            /\ L \in log.loaded \/ log.ins[L] # {}
            /\ CompleteRecord(nutrition_db[L]))
    /\ [][restarts' = restarts =>
            \A L \in DOMAIN nutrition_db' :
                (L \notin DOMAIN nutrition_db \/ nutrition_db'[L] # nutrition_db[L]) =>
                    \E t \in Threads :
                        /\ pc[t] = "insert" /\ Moved(t)
                        /\ obs[t].calls = << L >> /\ obs[t].posts = 1
                        /\ obs[t].reply = "found"
                        /\ CompleteRecord(req[t].nutrition_data)
                        /\ nutrition_db'[L] = req[t].nutrition_data
         ]_vars

\* C13 witness: the cache holds 'Sushi', loaded at startup, and 'Pizza',
\* inserted by a request, after another request's fetch failed.
C13_Witness ==
    /\ DOMAIN nutrition_db = {"Pizza", "Sushi"}
    /\ "Sushi" \in log.loaded /\ log.ins["Sushi"] = {}
    /\ "Pizza" \notin log.loaded /\ log.ins["Pizza"] # {}
    /\ \E t \in Threads :
          pc[t] = "done" /\ obs[t].reply \in {"zero", "non2xx", "unreachable"}

\* C14: within one process no step removes a key from the in-memory cache,
\* so a request that found its label at the membership test finds an entry
\* when it reads it: the read raises no KeyError and yields a record.
C14_NoEviction ==
    /\ [](\A t \in Threads :
            /\ req[t].e # "KeyError"
            /\ pc[t] = "hit" => req[t].top_prediction_label \in DOMAIN nutrition_db)
    /\ [][restarts' = restarts =>
            /\ DOMAIN nutrition_db \subseteq DOMAIN nutrition_db'
            /\ \A t \in Threads :
                  (pc[t] = "hit" /\ Moved(t)) =>
                      /\ pc'[t] = "respond"
                      /\ req'[t].nutrition_data.t = "dict"
         ]_vars

\* C14 witness: a request that found 'Sushi' at the membership test has read
\* its record while another request had inserted 'Pizza' and not yet
\* released the lock.
C14_Witness ==
    \E t1, t2 \in Threads :
        /\ pc[t1] = "respond" /\ obs[t1].cache = "hit"
        /\ req[t1].top_prediction_label = "Sushi" /\ req[t1].nutrition_data.t = "dict"
        /\ pc[t2] \in {"open", "dump", "release"}
        /\ req[t2].top_prediction_label = "Pizza"
        /\ DOMAIN nutrition_db = {"Pizza", "Sushi"}

\* C15: when a request that missed is about to respond, or has responded,
\* with a record it fetched, it has inserted that record in the in-memory
\* cache (the label is there, with a record inserted for it), its attempt to
\* rewrite the file has ended, completed or failed, and it no longer holds
\* the lock; the response is produced by a later step than all of these.
C15_WriteThroughBeforeResponse ==
    /\ [](\A t \in Threads :
            (/\ pc[t] \in {"respond", "done"}
             /\ obs[t].cache = "miss"
             /\ req[t].nutrition_data.t = "dict") =>
                /\ obs[t].wrote \in {"ok", "failed"}
                /\ db_lock # t
                /\ req[t].top_prediction_label \in DOMAIN nutrition_db
                /\ req[t].nutrition_data \in log.ins[req[t].top_prediction_label]
                /\ nutrition_db[req[t].top_prediction_label]
                      \in log.ins[req[t].top_prediction_label])
    /\ [][\A t \in Threads :
            (Moved(t) /\ obs[t].cache = "miss" /\ response'[t] # response[t]
                /\ response'[t].status = 200 /\ req[t].nutrition_data.t = "dict") =>
                    /\ pc[t] = "respond"
                    /\ response[t] = NoResponse
                    /\ response'[t] = FoundResponse(req[t].predictions, req[t].nutrition_data)
                    /\ UNCHANGED << nutrition_db, store, db_lock >>
         ]_vars

\* C15 witness: a request has responded with the record it fetched after its
\* file write failed; the record is in the in-memory cache and the lock is
\* free.
C15_Witness ==
    \E t \in Threads :
        /\ pc[t] = "done" /\ obs[t].cache = "miss" /\ obs[t].wrote = "failed"
        /\ response[t] = FoundResponse(req[t].predictions, req[t].nutrition_data)
        /\ nutrition_db[req[t].top_prediction_label] = req[t].nutrition_data
        /\ db_lock = NoThread

\* C16: the membership test and the read of an entry can always be taken,
\* whoever holds the lock, and they leave the lock alone; the test finds the
\* label absent or present, and the read of a present label yields a whole
\* record: one inserted for the label by a request, or the one loaded at
\* startup.
C16_ReadsAreUnlocked ==
    /\ [](\A t \in Threads :
            /\ pc[t] = "check" => ENABLED CheckCache(t)
            /\ pc[t] = "hit" => ENABLED ReadCache(t))
    /\ [][\A t \in Threads :
            /\ (pc[t] = "check" /\ Moved(t)) =>
                  /\ pc'[t] \in {"hit", "miss"}
                  /\ db_lock' = db_lock
            /\ (pc[t] = "hit" /\ Moved(t)) =>
                  /\ db_lock' = db_lock
                  /\ CompleteRecord(req'[t].nutrition_data)
                  /\ \/ req'[t].nutrition_data \in log.ins[req[t].top_prediction_label]
                     \/ req[t].top_prediction_label \in log.loaded
         ]_vars

\* C16 witness: while a request that inserted 'Pizza' still holds the lock
\* and rewrites the file, another request for 'Pizza' has found it, read it
\* and responded with the whole record.
C16_Witness ==
    \E t1, t2 \in Threads :
        /\ pc[t2] = "dump" /\ db_lock = t2
        /\ req[t2].top_prediction_label = "Pizza"
        /\ pc[t1] = "done" /\ obs[t1].cache = "hit"
        /\ req[t1].top_prediction_label = "Pizza"
        /\ response[t1] = FoundResponse(req[t1].predictions, req[t2].nutrition_data)

\* C17: whenever no request holds the lock and no file write of this
\* process has failed, the file holds exactly the in-memory cache, or no
\* request of this process has inserted anything yet and the cache is what
\* the process loaded from the file as it found it.
C17_SnapshotConsistency ==
    (db_lock = NoThread /\ log.failed = {}) =>
        \/ store = JsonFile(nutrition_db)
        \/ /\ \A L \in Labels : log.ins[L] = {}
           /\ nutrition_db = LoadStore(store)

\* C17 witness: with 'Sushi' loaded at startup, a request has inserted
\* 'Pizza' and rewritten the file, which now holds both; no write has failed
\* and the lock is free.
C17_Witness ==
    /\ db_lock = NoThread /\ log.failed = {}
    /\ log.ins["Pizza"] # {}
    /\ "Sushi" \in log.loaded
    /\ store = JsonFile(nutrition_db)
    /\ DOMAIN store.content = {"Pizza", "Sushi"}

\* Some request that missed on label L before L's current entry was stored
\* has not yet done its own insert.
MissInFlight(L) ==
    \E t \in Threads :
        /\ req[t].top_prediction_label = L
        /\ obs[t].cache = "miss"
        /\ pc[t] \in {"miss", "posting", "lock", "insert"}

\* C18 as stated: within one process, a label of the in-memory cache keeps
\* the record it maps to in every step.
C18_Original ==
    [][restarts' = restarts =>
        \A L \in DOMAIN nutrition_db :
            L \in DOMAIN nutrition_db' /\ nutrition_db'[L] = nutrition_db[L]
      ]_vars

\* C18 as amended: within one process, a label of the in-memory cache stays
\* in it, and the record it maps to changes only when a request that had
\* missed on that label before the entry was stored inserts the record its
\* own provider call returned (the last insert wins); once no such request
\* is in flight there is none later and the record stays the same.
C18_RecordStability ==
    [][restarts' = restarts =>
        \A L \in DOMAIN nutrition_db :
            /\ L \in DOMAIN nutrition_db'
            /\ nutrition_db'[L] # nutrition_db[L] =>
                  \E t \in Threads :
                      /\ pc[t] = "insert" /\ Moved(t)
                      /\ req[t].top_prediction_label = L
                      /\ obs[t].cache = "miss" /\ obs[t].calls = << L >>
                      /\ nutrition_db'[L] = req[t].nutrition_data
            /\ ~MissInFlight(L) =>
                  /\ ~MissInFlight(L)'
                  /\ nutrition_db'[L] = nutrition_db[L]
      ]_vars

\* C18 witness: two requests missed on 'Pizza' at the same time, their
\* provider calls returned different records, both inserted, and the cache
\* holds the record of the later insert.
C18_Witness ==
    \E t1, t2 \in Threads :
        /\ pc[t1] = "done" /\ pc[t2] = "done"
        /\ req[t1].top_prediction_label = "Pizza" /\ req[t2].top_prediction_label = "Pizza"
        /\ obs[t1].wrote = "ok" /\ obs[t2].wrote = "ok"
        /\ req[t1].nutrition_data # req[t2].nutrition_data
        /\ response[t1] = FoundResponse(req[t1].predictions, req[t1].nutrition_data)
        /\ nutrition_db["Pizza"] = req[t2].nutrition_data
        /\ ~MissInFlight("Pizza")

\* The labels the file is known to have held: those loaded from it at
\* startup and those whose request completed its file write.
Persisted == log.loaded \cup {L \in Labels : log.put[L] # {}}

\* C19: once a request's file write has failed, at the open or in the dump,
\* and nobody else is writing, the file still holds every label it held
\* before, so that a restart would load all of them.
C19_FailedWriteKeepsPersistedData ==
    \A t \in Threads :
        (obs[t].wrote = "failed" /\ db_lock \in {t, NoThread}) =>
            Persisted \subseteq DOMAIN LoadStore(store)

\* C20: a request holds the lock only inside the write section, so never
\* while it calls the provider and never after a write, failed or not; and
\* in a process that keeps running, every request that is past its
\* classifier call reaches the provider call or the end of the request, and
\* once the provider call has returned it reaches the end, whatever the other
\* requests do, one that never leaves its provider call included.
C20_HungProviderBlocksNobody ==
    /\ [](\A t \in Threads :
            /\ db_lock = t => pc[t] \in WriteSection
            /\ pc[t] = "posting" => db_lock # t)
    /\ \A t \in Threads :
          [](pc[t] \in {"check", "hit", "miss", "lock", "insert", "open", "dump",
                        "release", "respond", "except"}
                => <>(pc[t] \in {"posting", "done"}))

\* C20 witness: one request is inside its provider call while another, which
\* missed too, has fetched, had its file write fail, released the lock and
\* responded.
C20_Witness ==
    \E t1, t2 \in Threads :
        /\ pc[t1] = "posting"
        /\ pc[t2] = "done" /\ obs[t2].cache = "miss" /\ obs[t2].wrote = "failed"
        /\ response[t2].status = 200
        /\ db_lock = NoThread

====
